---------------------------- MODULE Spec2Model ----------------------------
(***************************************************************************)
(* SmartKart: the web session of src/src/web_app.py (mode, pending item,   *)
(* cart, cursor, confirmation state) driven by the capture loop, the       *)
(* button and dial endpoints, /api/process_barcode, /api/reset_database    *)
(* and the confirmation timer; the multi-frame barcode verifier of         *)
(* src/src/barcode/scanner.py; and the background capture thread of        *)
(* src/src/main.py with the flags that start and stop it; and the speech   *)
(* queue of src/src/audio/speech.py with its worker thread; and the camera *)
(* of web_app.py with camera_lock.                                         *)
(***************************************************************************)
EXTENDS Integers, Sequences, FiniteSets, TLC

(***************************************************************************)
(* Bounds of the model.                                                    *)
(***************************************************************************)
\* the longest cart the model builds
MaxCart == 2

\* detections pyzbar returns for one frame, at most
MaxDetections == 2
\* history counters saturate here
MaxHold == 7
MaxGap == 6
\* background scanner threads the model lets main.py start
MaxThreads == 2
\* texts passed to speak_async
MaxTexts == 3
\* buttons of the controller the model presses, presses, callback threads and
\* tenths of a second on the clock
MaxButtons == 2
MaxPresses == 2
MaxWorkers == 2
MaxClock == 6

\* BarcodeScanner.__init__
min_consecutive_detections == 3
max_no_detection_frames == 5
\* seconds
barcode_timeout == 5
\* initialize_camera: "for index in range(5)"
camera_indices_tried == 5
\* ButtonController: the modes, and the debounce time in tenths of a second
MODE_NORMAL == 0
MODE_MENU == 1
MODE_CONFIRMATION == 2
debounce_time == 2
\* Python's None for camera and selected_camera_index
NoCamera == -1
\* time.time() - last_barcode_time in whole seconds, saturating just past the timeout
MaxAge == barcode_timeout + 1

\* the barcodes shown to the camera or posted to the HTTP API
Codes == {"A", "B"}
NoCode == ""

\* Python's None for last_scanned_product is the empty sequence; a product
\* dictionary d is <<d>>.
None == <<>>

Buttons == {"SELECT_CONFIRM", "INFO_ALLERGENS", "BACK_CANCEL_DELETE",
            "MODE_TOGGLE", "UNUSED_B5", "HELP_CLEAR", "BACK_CANCEL",
            "UNKNOWN"}

\* long_press is read for HELP_CLEAR only
ButtonInputs == (Buttons \X {FALSE}) \cup {<<"HELP_CLEAR", TRUE>>}

Directions == {"next", "previous", "other"}

\* what the network lookup can come back with
Outcomes == {"found", "notfound", "error"}

NotFoundName == "Product Not Found"

\* product_name that the catalog holds for a barcode
CatalogName(c) == IF c = "A" THEN "Cola" ELSE IF c = "B" THEN "Chips" ELSE "Tea"

VARIABLES
    current_mode,          \* web_app.py:63
    last_scanned_product,  \* web_app.py:54
    processed_barcodes,    \* web_app.py:55
    shopping_cart,         \* web_app.py:64
    cart_index,            \* web_app.py:65
    confirm_action,        \* web_app.py:875  "None" | "REMOVE" | "CLEAR"
    confirm_timer,         \* web_app.py:876  "None" | "waiting" (a started Timer)
    said,                  \* what the most recent step passed to _speak / speech.speak
    gf_pc,                 \* generate_frames: "idle" | "check" | "gate" | "apply"
    gf_barcode,            \* generate_frames: barcode_data of the current iteration
    pb_pc,                 \* process_barcode: "idle" | "found"
    pb_barcode,            \* process_barcode: barcode of the request in progress
    \* history of the codes the capture loop met outside SCANNING
    observing_periods,     \* whether period_codes is kept (fixed at the start)
    period_codes,          \* codes met since the mode last left SCANNING
    \* history of the confirmation protocol
    remove_request_index,  \* cart_index when the pending REMOVE was requested, else -1
    confirm_timeout,       \* "elapsed": the Timer ran out and no button was pressed
                           \* since; "pressed": the latest press was the first one
                           \* after that; else "none"
    last_barcode,            \* scanner.py:29 (NoCode for None)
    consecutive_detections,  \* scanner.py:32
    no_detection_count,      \* scanner.py:33
    verified,                \* barcode_text returned by the latest verify_barcode call
    \* history of the frames seen by the verifier
    hold_code, hold_len, hold_emits,   \* trailing run of frames showing one and the same code
    alt_len, alt_code, alt_first_emit, alt_first_hits,  \* trailing run of frames each showing another code than the one before
    rescan,                  \* progress of "verified, gone, shown again"
    multi_seen,              \* some frame so far carried more than one detection
    last_barcode_age,        \* time.time() - last_barcode_time (scanner.py:30), up to MaxAge
    miss_run,                \* trailing run of frames without a detection
    kept_last, kept_hits,    \* last_barcode and consecutive_detections after the latest frame with a detection
    \* a second BarcodeScanner driven through detect_barcodes and process_barcode
    tracking,
    input,                   \* the codes shown frame by frame to both scanners
    fed,                     \* how many frames of input both have seen
    \* main.py
    running,                 \* main.py:91
    scanner_running,         \* main.py:104
    scanner_thread,          \* main.py:103 (0 for None)
    thread_pc,               \* per thread: "unborn" | "test" | "body" | "frame" | "done"
    cap,                     \* scanner.py:28: the scanner's camera is open (self.cap is set)
    pending_reads,           \* the threads holding a frame not yet verified, in the order of their reads
    self_processed_barcodes, \* main.py:107
    main_pc,                 \* the main thread: "constructed" | "menu" | "join" | "stop_join" | "stopped"
    stop_requested,          \* the threads that were alive when scanner_running was last cleared
    \* audio/speech.py
    speech_queue,            \* speech.py:37: which Queue object the attribute refers to
    queue_items,             \* the texts in each Queue object, oldest first
    speech_stop_requested,   \* speech.py:40 (self.stop_requested)
    sa_pc,                   \* speak_async: "idle" | "drain" | "get" | "replace" | "start"
    sw_pc,                   \* _speech_worker: "dead" | "test" | "get" | "speak" | "exit"
    sw_queue,                \* the Queue object the worker's get() waits on
    sw_text,                 \* the text the worker has taken (0: none)
    spoken,                  \* the texts spoken by the worker, in order
    next_text,               \* speak_async calls so far; the texts are numbered by call
    stop_called,             \* stop_speaking was called at some point
    prio_text, prio_queued,  \* the latest priority text and what was queued when it came
    \* web_app.py: the camera
    camera,                  \* web_app.py:56: the index the VideoCapture is opened on, or NoCamera
    camera_lock,             \* web_app.py:57: "free" or the thread that holds it
    selected_camera_index,   \* web_app.py:58
    working,                 \* the camera indices that can be opened and read at present
    cam_pc,                  \* per thread: "start" | "loop" | "locked" | "recheck" | "call" | "idle" | "select"
    cam_todo,                \* per thread: the camera functions it is calling, in order
    cam_ret,                 \* per thread: where it continues after them
    requested_index,         \* the settings endpoint's new_camera_index
    \* interface/button_controller.py
    button_running,          \* button_controller.py:41 (self.running)
    button_mode,             \* button_controller.py:36 (self.current_mode)
    button_last_press,       \* button_controller.py:32
    callback_queue,          \* button_controller.py:39: the presses put and not yet taken
    worker_pc,               \* per callback thread: "unborn" | "test" | "get" | "call" | "done"
    worker_item,             \* per callback thread: the press it has taken, if any
    invoked,                 \* the presses whose callback was called, in the order of the calls
    accepted,                \* the presses accepted while the controller was running
    next_press,              \* presses accepted so far; they are numbered in that order
    last_press_accepted,     \* the latest press passed the debounce test
    clock                    \* time.time() in tenths of a second

vars == <<current_mode, last_scanned_product, processed_barcodes, shopping_cart,
          cart_index, confirm_action, confirm_timer, said,
          gf_pc, gf_barcode, pb_pc, pb_barcode,
          remove_request_index, confirm_timeout,
          observing_periods, period_codes,
          last_barcode, consecutive_detections, no_detection_count, verified,
          hold_code, hold_len, hold_emits,
          alt_len, alt_code, alt_first_emit, alt_first_hits, rescan, multi_seen,
          last_barcode_age, miss_run, kept_last, kept_hits,
          tracking, input, fed,
          running, scanner_running, scanner_thread, thread_pc,
          self_processed_barcodes, main_pc, stop_requested, cap, pending_reads,
          speech_queue, queue_items, speech_stop_requested, sa_pc, sw_pc,
          sw_queue, sw_text, spoken, next_text, stop_called, prio_text, prio_queued,
          camera, camera_lock, selected_camera_index, working, cam_pc, cam_todo,
          cam_ret, requested_index,
          button_running, button_mode, button_last_press, callback_queue, worker_pc,
          worker_item, invoked, accepted, next_press, last_press_accepted, clock>>

scannerVars == <<last_barcode, consecutive_detections, no_detection_count, verified,
                 hold_code, hold_len, hold_emits,
                 alt_len, alt_code, alt_first_emit, alt_first_hits, rescan, multi_seen,
                 last_barcode_age, miss_run, kept_last, kept_hits>>

pairVars == <<tracking, input, fed>>

mainVars == <<running, scanner_running, scanner_thread, thread_pc,
              self_processed_barcodes, main_pc, stop_requested, cap, pending_reads>>

speechVars == <<speech_queue, queue_items, speech_stop_requested, sa_pc, sw_pc,
                sw_queue, sw_text, spoken, next_text, stop_called, prio_text, prio_queued>>

cameraVars == <<camera, camera_lock, selected_camera_index, working, cam_pc, cam_todo,
                cam_ret, requested_index>>

buttonVars == <<button_running, button_mode, button_last_press, callback_queue, worker_pc,
                worker_item, invoked, accepted, next_press, last_press_accepted, clock>>

\* the peripherals next to the session and the scanner
deviceVars == <<speechVars, cameraVars, buttonVars>>

webVars == <<current_mode, last_scanned_product, processed_barcodes, shopping_cart,
             cart_index, confirm_action, confirm_timer, said,
             gf_pc, gf_barcode, pb_pc, pb_barcode,
             remove_request_index, confirm_timeout,
             observing_periods, period_codes>>

(***************************************************************************)
(* The session globals as one record, so that the helper functions of      *)
(* web_app.py can be written as functions from state to state.             *)
(***************************************************************************)
Session ==
    [mode |-> current_mode, last |-> last_scanned_product,
     processed |-> processed_barcodes, cart |-> shopping_cart,
     idx |-> cart_index, confirm |-> confirm_action, timer |-> confirm_timer,
     said |-> <<>>]

\* seen: the codes the step met in the capture loop's mode check
InstallSeen(s, seen) ==
    /\ period_codes' = IF observing_periods /\ s.mode # "SCANNING"
                       THEN period_codes \cup seen
                       ELSE {}
    /\ UNCHANGED <<observing_periods, pairVars, mainVars, deviceVars>>
    /\ current_mode' = s.mode
    /\ last_scanned_product' = s.last
    /\ processed_barcodes' = s.processed
    /\ shopping_cart' = s.cart
    /\ cart_index' = s.idx
    /\ confirm_action' = s.confirm
    /\ confirm_timer' = s.timer
    /\ said' = s.said

Install(s) == InstallSeen(s, {})

\* _speak(text): blocking speak; the model records the text
Speak(s, text) == [s EXCEPT !.said = Append(@, text)]

\* the for-loop over shopping_cart comparing item.get('barcode')
InCart(cart, c) == \E i \in 1..Len(cart) : cart[i].barcode = c

\* shopping_cart.pop(i) for a valid 0-based i
Pop(cart, i) == SubSeq(cart, 1, i) \o SubSeq(cart, i + 2, Len(cart))

\* ProductInfoLookup.lookup_barcode: the dictionary it returns
LookupBarcode(c, outcome) ==
    IF outcome = "found"
    THEN [found |-> TRUE, barcode |-> c, product_name |-> CatalogName(c)]
    ELSE IF outcome = "notfound"
    THEN [found |-> FALSE, barcode |-> c, product_name |-> "Product not found"]
    ELSE [found |-> FALSE, barcode |-> c, product_name |-> "Error"]

(***************************************************************************)
(* Action helper functions                                                 *)
(***************************************************************************)
\* a plausible slip: the new item is inserted at the front of the cart
AddItemToCart_Prepends(s) ==
    IF s.mode # "ITEM_SCANNED" \/ s.last = None
    THEN Speak(s, "No item scanned to add.")
    ELSE IF s.last[1].name = NotFoundName
    THEN Speak(s, "Cannot add unknown product.")
    ELSE Speak([s EXCEPT !.cart = <<s.last[1]>> \o @,
                         !.mode = "SCANNING",
                         !.last = None],
               "Added to cart.")

\* a plausible slip: the 'Product Not Found' test is missing
AddItemToCart_NoFoundCheck(s) ==
    IF s.mode # "ITEM_SCANNED" \/ s.last = None
    THEN Speak(s, "No item scanned to add.")
    ELSE Speak([s EXCEPT !.cart = Append(@, s.last[1]),
                         !.mode = "SCANNING",
                         !.last = None],
               "Added to cart.")

AddItemToCart(s) ==
    IF s.mode # "ITEM_SCANNED" \/ s.last = None
    THEN Speak(s, "No item scanned to add.")
    ELSE IF s.last[1].name = NotFoundName
    THEN Speak(s, "Cannot add unknown product.")
    ELSE Speak([s EXCEPT !.cart = Append(@, s.last[1]),
                         !.mode = "SCANNING",
                         !.last = None],
               "Added to cart.")

SpeakAllergens(s) ==
    IF s.mode # "ITEM_SCANNED" \/ s.last = None
    THEN s
    ELSE Speak(s, "Allergens.")

SpeakIngredients(s) ==
    IF s.mode # "CART_REVIEW" \/ s.cart = <<>> \/ s.idx < 0
    THEN s
    ELSE IF s.idx >= Len(s.cart)
    THEN Speak(s, "Error retrieving item information.")
    ELSE Speak(s, "Ingredients.")

\* a plausible slip: the cursor stops at the ends of the cart
NavigateCart_Clamps(s, direction) ==
    IF s.mode # "CART_REVIEW" \/ s.cart = <<>>
    THEN Speak(s, "Cart is empty.")
    ELSE IF direction = "next"
    THEN Speak([s EXCEPT !.idx = IF s.idx + 1 >= Len(s.cart) THEN s.idx ELSE s.idx + 1],
               "Item.")
    ELSE IF direction = "previous"
    THEN Speak([s EXCEPT !.idx = IF s.idx = 0 THEN 0 ELSE s.idx - 1], "Item.")
    ELSE s

NavigateCart(s, direction) ==
    IF s.mode # "CART_REVIEW" \/ s.cart = <<>>
    THEN Speak(s, "Cart is empty.")
    ELSE IF direction = "next"
    THEN Speak([s EXCEPT !.idx = (s.idx + 1) % Len(s.cart)], "Item.")
    ELSE IF direction = "previous"
    THEN Speak([s EXCEPT !.idx = (s.idx - 1) % Len(s.cart)], "Item.")
    ELSE s

EnterCartMode(s) ==
    IF Len(s.cart) > 0
    THEN Speak([s EXCEPT !.mode = "CART_REVIEW", !.idx = 0], "Cart View.")
    ELSE Speak([s EXCEPT !.mode = "CART_REVIEW", !.idx = -1], "Cart is empty.")

ExitCartMode(s) ==
    Speak([s EXCEPT !.mode = "SCANNING", !.idx = -1], "Exiting Cart View.")

CancelScan(s) ==
    IF s.mode # "ITEM_SCANNED"
    THEN s
    ELSE [Speak(s, "Scan cancelled.") EXCEPT !.last = None, !.mode = "SCANNING"]

\* a plausible slip: the callback forgets the Timer but leaves the action armed
ResetConfirmState_TimerOnly(s) == [s EXCEPT !.timer = "None"]

ResetConfirmState(s) == [s EXCEPT !.confirm = "None", !.timer = "None"]

SpeakCurrentItemName(s) ==
    IF s.mode # "CART_REVIEW" \/ s.cart = <<>> \/ s.idx < 0
    THEN s
    ELSE IF s.idx >= Len(s.cart)
    THEN Speak(s, "Error retrieving item name.")
    ELSE Speak(s, "Item.")

\* a plausible slip: the index is not pulled back after removing the last item
RemoveCartItem_NoClamp(s) ==
    IF s.mode # "CART_REVIEW" \/ s.cart = <<>> \/ s.idx < 0
    THEN s
    ELSE IF s.idx >= Len(s.cart)
    THEN Speak(s, "Error removing item.")
    ELSE LET s1 == Speak([s EXCEPT !.cart = Pop(s.cart, s.idx)], "Removed.")
         IN  IF Len(s1.cart) = 0
             THEN Speak([s1 EXCEPT !.idx = -1], "Cart is now empty.")
             ELSE SpeakCurrentItemName(s1)

\* a plausible slip: the first item is removed instead of the selected one
RemoveCartItem_PopsFirst(s) ==
    IF s.mode # "CART_REVIEW" \/ s.cart = <<>> \/ s.idx < 0
    THEN s
    ELSE IF s.idx >= Len(s.cart)
    THEN Speak(s, "Error removing item.")
    ELSE LET s1 == Speak([s EXCEPT !.cart = Pop(s.cart, 0)], "Removed.")
             cart_len == Len(s1.cart)
         IN  IF cart_len = 0
             THEN Speak([s1 EXCEPT !.idx = -1], "Cart is now empty.")
             ELSE SpeakCurrentItemName(
                      IF s1.idx >= cart_len
                      THEN [s1 EXCEPT !.idx = cart_len - 1]
                      ELSE s1)

RemoveCartItem(s) ==
    IF s.mode # "CART_REVIEW" \/ s.cart = <<>> \/ s.idx < 0
    THEN s
    ELSE IF s.idx >= Len(s.cart)
    THEN Speak(s, "Error removing item.")
    ELSE LET s1 == Speak([s EXCEPT !.cart = Pop(s.cart, s.idx)], "Removed.")
             cart_len == Len(s1.cart)
         IN  IF cart_len = 0
             THEN Speak([s1 EXCEPT !.idx = -1], "Cart is now empty.")
             ELSE SpeakCurrentItemName(
                      IF s1.idx >= cart_len
                      THEN [s1 EXCEPT !.idx = cart_len - 1]
                      ELSE s1)

ClearCart(s) ==
    IF s.cart = <<>>
    THEN Speak(s, "Cart is already empty.")
    ELSE [Speak([s EXCEPT !.cart = <<>>, !.idx = -1], "Cart cleared.")
            EXCEPT !.mode = "SCANNING"]

(***************************************************************************)
(* handle_button_press: the branches of the normal button handling         *)
(***************************************************************************)
\* a plausible slip: Button 1 adds the last scanned product in every mode
SelectConfirm_AnyMode(s) ==
    IF s.last # None /\ s.last[1].name # NotFoundName
    THEN Speak([s EXCEPT !.cart = Append(@, s.last[1]),
                         !.mode = "SCANNING",
                         !.last = None],
               "Added to cart.")
    ELSE IF s.mode = "CART_REVIEW" THEN SpeakIngredients(s)
    ELSE Speak(s, "Please scan an item first.")

SelectConfirm(s) ==
    IF s.mode = "ITEM_SCANNED" THEN AddItemToCart(s)
    ELSE IF s.mode = "CART_REVIEW" THEN SpeakIngredients(s)
    ELSE Speak(s, "Please scan an item first.")

InfoAllergens(s) ==
    IF s.mode = "ITEM_SCANNED" THEN SpeakAllergens(s)
    ELSE IF s.mode = "CART_REVIEW"
    THEN Speak(s, "Cannot get allergen info while in cart view.")
    ELSE Speak(s, "Please scan an item to get allergen info.")

\* a plausible slip: Button 3 cancels the last scan in every mode but CART_REVIEW
BackCancelDelete_CancelsAnyScan(s) ==
    IF s.mode = "CART_REVIEW"
    THEN IF s.cart = <<>>
         THEN Speak(s, "Cart is empty.")
         ELSE IF s.idx >= 0
         THEN IF s.idx >= Len(s.cart)
              THEN Speak(s, "Error selecting item to remove.")
              ELSE [Speak(s, "Remove? Press the Back/Cancel button again to confirm.")
                      EXCEPT !.confirm = "REMOVE", !.timer = "waiting"]
         ELSE Speak(s, "Cart is empty or no item selected.")
    ELSE [Speak(s, "Scan cancelled.") EXCEPT !.last = None, !.mode = "SCANNING"]

\* a plausible slip: the removal is armed without looking at the cart
BackCancelDelete_ArmsOnEmptyCart(s) ==
    IF s.mode = "ITEM_SCANNED" THEN CancelScan(s)
    ELSE IF s.mode = "CART_REVIEW"
    THEN [Speak(s, "Remove? Press the Back/Cancel button again to confirm.")
            EXCEPT !.confirm = "REMOVE", !.timer = "waiting"]
    ELSE s

BackCancelDelete(s) ==
    IF s.mode = "ITEM_SCANNED" THEN CancelScan(s)
    ELSE IF s.mode = "CART_REVIEW"
    THEN IF s.cart = <<>>
         THEN Speak(s, "Cart is empty.")
         ELSE IF s.idx >= 0
         THEN IF s.idx >= Len(s.cart)
              THEN Speak(s, "Error selecting item to remove.")
              ELSE [Speak(s, "Remove? Press the Back/Cancel button again to confirm.")
                      EXCEPT !.confirm = "REMOVE", !.timer = "waiting"]
         ELSE Speak(s, "Cart is empty or no item selected.")
    ELSE s

ModeToggle(s) ==
    IF s.mode = "CART_REVIEW" THEN ExitCartMode(s) ELSE EnterCartMode(s)

\* a plausible slip: a long press asks for the clear confirmation in every mode
HelpClear_AnyMode(s, is_long_press) ==
    IF is_long_press
    THEN IF s.cart = <<>>
         THEN Speak(s, "Cart is already empty.")
         ELSE [Speak(s, "Clear entire cart? Press this button again to confirm.")
                 EXCEPT !.confirm = "CLEAR", !.timer = "waiting"]
    ELSE Speak(s, "Help.")

HelpClear(s, is_long_press) ==
    IF is_long_press /\ s.mode = "CART_REVIEW"
    THEN IF s.cart = <<>>
         THEN Speak(s, "Cart is already empty.")
         ELSE [Speak(s, "Clear entire cart? Press this button again to confirm.")
                 EXCEPT !.confirm = "CLEAR", !.timer = "waiting"]
    ELSE IF is_long_press
    THEN Speak(s, "Clear cart only available in Cart View.")
    ELSE Speak(s, "Help.")

NormalButton(s, button_id, is_long_press) ==
    IF button_id = "SELECT_CONFIRM" THEN SelectConfirm(s)
    ELSE IF button_id = "INFO_ALLERGENS" THEN InfoAllergens(s)
    ELSE IF button_id = "BACK_CANCEL_DELETE" THEN BackCancelDelete(s)
    ELSE IF button_id = "MODE_TOGGLE" THEN ModeToggle(s)
    ELSE IF button_id = "UNUSED_B5" THEN Speak(s, "Button 5 not assigned.")
    ELSE IF button_id = "HELP_CLEAR" THEN HelpClear(s, is_long_press)
    ELSE Speak(s, "Unknown button pressed.")

\* a plausible slip: the pending confirmation is not reset before it is acted on
HandleButtonPress_KeepsArmed(s, button_id, is_long_press) ==
    IF s.confirm # "None"
    THEN IF s.confirm = "REMOVE" /\ button_id = "BACK_CANCEL"
         THEN RemoveCartItem(s)
         ELSE IF s.confirm = "CLEAR" /\ button_id = "HELP_CLEAR"
         THEN ClearCart(s)
         ELSE NormalButton(Speak(ResetConfirmState(s), "Cancelled."),
                           button_id, is_long_press)
    ELSE NormalButton(s, button_id, is_long_press)

HandleButtonPress(s, button_id, is_long_press) ==
    IF s.confirm # "None"
    THEN LET pending_action == s.confirm
             s1 == ResetConfirmState(s)
         IN  IF pending_action = "REMOVE" /\ button_id = "BACK_CANCEL"
             THEN RemoveCartItem(s1)
             ELSE IF pending_action = "CLEAR" /\ button_id = "HELP_CLEAR"
             THEN ClearCart(s1)
             ELSE NormalButton(Speak(s1, "Cancelled."), button_id, is_long_press)
    ELSE NormalButton(s, button_id, is_long_press)

HandleDialChange(s, direction) ==
    IF s.mode = "CART_REVIEW"
    THEN NavigateCart(s, direction)
    ELSE Speak(s, "Dial navigation only available in Cart View.")

(***************************************************************************)
(* generate_frames: the two locked sections run for one decoded barcode    *)
(***************************************************************************)
\* first section: TRUE iff the iteration goes on to the processed check
GFModeIsScanning(s) == s.mode # "ITEM_SCANNED" /\ s.mode # "CART_REVIEW"

GFCheckBody(s, c) ==
    IF s.mode = "ITEM_SCANNED"
    THEN IF c \notin s.processed
         THEN [Speak(s, "Waiting for action.") EXCEPT !.processed = @ \cup {c}]
         ELSE s
    ELSE IF s.mode = "CART_REVIEW"
    THEN IF c \notin s.processed
         THEN [Speak(s, "Currently in Cart View. Exit cart to scan.")
                 EXCEPT !.processed = @ \cup {c}]
         ELSE s
    ELSE s

\* the dictionary generate_frames stores in last_scanned_product
ScannedProduct(c, product_data) ==
    IF product_data.found
    THEN [barcode |-> c, name |-> product_data.product_name]
    ELSE [barcode |-> c, name |-> NotFoundName]

GFApplyBody(s, c, outcome) ==
    IF InCart(s.cart, c)
    THEN Speak([s EXCEPT !.processed = @ \cup {c}], "Already in the cart.")
    ELSE IF s.mode = "SCANNING"
    THEN LET product_data == LookupBarcode(c, outcome)
             s1 == [s EXCEPT !.processed = @ \cup {c},
                             !.last = <<ScannedProduct(c, product_data)>>,
                             !.mode = "ITEM_SCANNED"]
         IN  IF product_data.found
             THEN Speak(s1, "Found.")
             ELSE Speak(s1, "Product not found for barcode.")
    ELSE s

(***************************************************************************)
(* BarcodeScanner.verify_barcode                                           *)
(***************************************************************************)
\* what pyzbar.decode can return for a frame: the decoded texts, in order
Frames == UNION {[1..n -> Codes] : n \in 0..MaxDetections}

Min(a, b) == IF a < b THEN a ELSE b

Scanner ==
    [last |-> last_barcode, hits |-> consecutive_detections,
     misses |-> no_detection_count, result |-> NoCode,
     age |-> last_barcode_age]

\* a plausible slip: the candidate is dropped once the misses exceed the maximum
VerifyNoBarcodes_Exceeds(v) ==
    IF v.misses + 1 > max_no_detection_frames
    THEN [v EXCEPT !.last = NoCode, !.hits = 0, !.misses = 0]
    ELSE [v EXCEPT !.misses = @ + 1]

\* the branch "if not barcodes"
VerifyNoBarcodes(v) ==
    IF v.misses + 1 >= max_no_detection_frames
    THEN [v EXCEPT !.last = NoCode, !.hits = 0, !.misses = 0]
    ELSE [v EXCEPT !.misses = @ + 1]

\* a detection that matches the tracked barcode: the counting, before the threshold test
VerifyMatch(v) == [v EXCEPT !.misses = 0, !.hits = @ + 1]

\* a plausible slip: the first detection of a new barcode is not counted
VerifySwitch_ZeroHits(v, barcode_text) ==
    [v EXCEPT !.last = barcode_text, !.age = 0, !.hits = 0, !.misses = 0]

\* a detection of another barcode than the tracked one
VerifySwitch(v, barcode_text) ==
    [v EXCEPT !.last = barcode_text, !.age = 0, !.hits = 1, !.misses = 0]

\* a plausible slip: any detection counts for the tracked barcode
IsTracked_AnyCode(v, barcode_text) == v.last # NoCode

\* the test "barcode_text == self.last_barcode"
IsTracked(v, barcode_text) == barcode_text = v.last

\* the loop "for barcode in barcodes", returning at the first verified one
RECURSIVE VerifyLoop(_, _)
VerifyLoop(v, barcodes) ==
    IF barcodes = <<>>
    THEN v
    ELSE LET barcode_text == Head(barcodes)
         IN  IF IsTracked(v, barcode_text)
             THEN LET v1 == VerifyMatch(v)
                  IN  IF v1.hits >= min_consecutive_detections
                      THEN [v1 EXCEPT !.hits = 0, !.result = barcode_text]
                      ELSE VerifyLoop(v1, Tail(barcodes))
             ELSE VerifyLoop(VerifySwitch(v, barcode_text), Tail(barcodes))

VerifyBarcode(v, barcodes) ==
    IF barcodes = <<>> THEN VerifyNoBarcodes(v) ELSE VerifyLoop(v, barcodes)

NoRescan == [code |-> NoCode, gap |-> 0, hold |-> 0, emitted |-> FALSE]

\* should_reset_last_barcode
ShouldResetLastBarcode(t) ==
    IF t.last # NoCode /\ t.age > barcode_timeout
    THEN [t EXCEPT !.last = NoCode, !.hits = 0]
    ELSE t

\* detect_barcodes: the timeout test, then the counting of frames without a
\* detection (the counter is read by ">=" only and saturates at the maximum)
DetectBarcodes(t, barcodes) ==
    LET t1 == ShouldResetLastBarcode(t)
    IN  IF barcodes = <<>>
        THEN IF t1.misses + 1 >= max_no_detection_frames /\ t1.last # NoCode
             THEN [t1 EXCEPT !.last = NoCode, !.hits = 0, !.misses = 0]
             ELSE [t1 EXCEPT !.misses = Min(@ + 1, max_no_detection_frames)]
        ELSE [t1 EXCEPT !.misses = 0]

\* process_barcode: every path returns (None, None); consecutive_detections
\* is read nowhere on this path and saturates at the threshold
ProcessBarcode(t, barcode_text) ==
    IF barcode_text = t.last
    THEN [t EXCEPT !.hits = Min(@ + 1, min_consecutive_detections), !.result = NoCode]
    ELSE [t EXCEPT !.last = barcode_text, !.age = 0, !.hits = 1, !.result = NoCode]

RECURSIVE ProcessAll(_, _)
ProcessAll(t, barcodes) ==
    IF barcodes = <<>>
    THEN t
    ELSE ProcessAll(ProcessBarcode(t, Head(barcodes)), Tail(barcodes))

\* one frame through detect_barcodes, each barcode it returns through process_barcode
TrackFrame(t, frame) ==
    ProcessAll(DetectBarcodes([t EXCEPT !.result = NoCode], frame), frame)

\* one captured frame goes through verify_barcode
VerifyFrame(frame) ==
    LET v == VerifyBarcode(Scanner, frame)
        one == Len(frame) = 1
        c == IF one THEN frame[1] ELSE NoCode
        emit == IF v.result # NoCode THEN 1 ELSE 0
        \* hits the verifier holds for c before this frame
        held == IF c = last_barcode THEN consecutive_detections ELSE 0
    IN  /\ last_barcode' = v.last
        /\ consecutive_detections' = v.hits
        /\ no_detection_count' = v.misses
        /\ verified' = v.result
        \* the hold: consecutive frames showing exactly the code c
        /\ IF one /\ c = hold_code
           THEN /\ hold_len' = Min(hold_len + 1, MaxHold)
                /\ hold_emits' = Min(hold_emits + emit, MaxHold)
                /\ UNCHANGED hold_code
           ELSE /\ hold_code' = c
                /\ hold_len' = IF one THEN 1 ELSE 0
                /\ hold_emits' = IF one THEN emit ELSE 0
        \* the alternation: consecutive frames, each showing one code that differs
        \* from the code of the frame before
        /\ IF one /\ alt_len >= 1 /\ c # alt_code
           THEN /\ alt_len' = Min(alt_len + 1, 2)
                /\ UNCHANGED <<alt_first_emit, alt_first_hits>>
           ELSE /\ alt_len' = IF one THEN 1 ELSE 0
                /\ alt_first_emit' = (one /\ emit = 1)
                /\ alt_first_hits' = IF one THEN held ELSE 0
        /\ alt_code' = c
        \* verified, then no code for max_no_detection_frames frames, then the code again
        /\ rescan' =
             IF rescan.code # NoCode /\ rescan.hold = 0 /\ frame = <<>>
             THEN [rescan EXCEPT !.gap = Min(@ + 1, MaxGap)]
             ELSE IF /\ rescan.code # NoCode
                     /\ rescan.gap >= max_no_detection_frames
                     /\ rescan.hold < min_consecutive_detections
                     /\ frame = <<rescan.code>>
             THEN [rescan EXCEPT !.hold = @ + 1,
                                 !.emitted = @ \/ v.result = rescan.code]
             ELSE IF v.result # NoCode
             THEN [code |-> v.result, gap |-> 0, hold |-> 0, emitted |-> FALSE]
             ELSE NoRescan
        /\ multi_seen' = (multi_seen \/ Len(frame) > 1)
        /\ last_barcode_age' = v.age
        /\ miss_run' = IF frame = <<>> THEN Min(miss_run + 1, MaxGap) ELSE 0
        /\ kept_last' = IF frame = <<>> THEN kept_last ELSE v.last
        /\ kept_hits' = IF frame = <<>> THEN kept_hits ELSE v.hits

\* the verifier alone sees a frame
Observe(frame) ==
    /\ VerifyFrame(frame)
    /\ UNCHANGED <<webVars, pairVars, mainVars, deviceVars>>

\* both scanners see the same frame
BothPaths(frame) ==
    /\ VerifyFrame(frame)
    /\ tracking' = TrackFrame(tracking, frame)

ObserveBoth(frame) ==
    /\ BothPaths(frame)
    /\ UNCHANGED <<webVars, input, fed, mainVars, deviceVars>>

\* a second passes between two frames
Tick ==
    /\ last_barcode_age < MaxAge \/ tracking.age < MaxAge
    /\ last_barcode_age' = Min(last_barcode_age + 1, MaxAge)
    /\ tracking' = [tracking EXCEPT !.age = Min(@ + 1, MaxAge)]
    /\ UNCHANGED <<last_barcode, consecutive_detections, no_detection_count, verified,
                   hold_code, hold_len, hold_emits,
                   alt_len, alt_code, alt_first_emit, alt_first_hits, rescan, multi_seen,
                   miss_run, kept_last, kept_hits>>
    /\ UNCHANGED <<webVars, input, fed, mainVars, deviceVars>>

\* the next frame of the chosen input, one detection per frame
Feed ==
    /\ fed < Len(input)
    /\ BothPaths(<<input[fed + 1]>>)
    /\ fed' = fed + 1
    /\ UNCHANGED <<webVars, input, mainVars, deviceVars>>

(***************************************************************************)
(* main.py: the background scanner thread and the flags that control it   *)
(***************************************************************************)
Threads == 1..MaxThreads

Alive(t) == thread_pc[t] \in {"test", "body", "frame"}

\* start(): the running flag is set and the menu loop entered
Start ==
    /\ main_pc = "constructed"
    /\ running' = TRUE
    /\ main_pc' = "menu"
    /\ UNCHANGED <<scanner_running, scanner_thread, thread_pc,
                   self_processed_barcodes, stop_requested, cap, pending_reads>>
    /\ UNCHANGED <<webVars, scannerVars, pairVars, deviceVars>>

\* _start_background_scanning, called from the menu when the scanner is not
\* running: the flag is set, then the camera is opened if it is not yet
\* (camera_ok: whether initialize_camera succeeds), then the thread started
StartBackgroundScanning(camera_ok) ==
    /\ main_pc = "menu"
    /\ ~scanner_running
    /\ scanner_running' = TRUE
    /\ IF ~cap /\ ~camera_ok
       THEN UNCHANGED <<scanner_thread, thread_pc, cap>>
       ELSE /\ cap' = TRUE
            /\ \E t \in Threads :
                 /\ thread_pc[t] = "unborn"
                 /\ \A u \in 1..(t - 1) : thread_pc[u] # "unborn"
                 /\ scanner_thread' = t
                 /\ thread_pc' = [thread_pc EXCEPT ![t] = "test"]
    /\ UNCHANGED <<running, self_processed_barcodes, main_pc, stop_requested,
                   pending_reads>>
    /\ UNCHANGED <<webVars, scannerVars, pairVars, deviceVars>>

\* _stop_background_scanning up to the join
StopBackgroundScanning ==
    /\ main_pc = "menu"
    /\ scanner_running
    /\ scanner_running' = FALSE
    /\ stop_requested' = {t \in Threads : Alive(t)}
    /\ main_pc' = "join"
    /\ UNCHANGED <<running, scanner_thread, thread_pc, self_processed_barcodes,
                   cap, pending_reads>>
    /\ UNCHANGED <<webVars, scannerVars, pairVars, deviceVars>>

\* scanner_thread.join(timeout=2.0) returns: the thread has ended, or the 2.0 s
\* ran out while it was inside an iteration (lookup, speech, sleep(1)); in
\* stop() the camera is released after it
JoinReturns ==
    /\ main_pc \in {"join", "stop_join"}
    /\ scanner_thread # 0 => thread_pc[scanner_thread] \in {"done", "body", "frame"}
    /\ main_pc' = IF main_pc = "join" THEN "menu" ELSE "stopped"
    /\ cap' = IF main_pc = "join" THEN cap ELSE FALSE
    /\ UNCHANGED <<running, scanner_running, scanner_thread, thread_pc,
                   self_processed_barcodes, stop_requested, pending_reads>>
    /\ UNCHANGED <<webVars, scannerVars, pairVars, deviceVars>>

\* stop(), reached when the menu loop ends
Stop ==
    /\ main_pc = "menu"
    /\ running' = FALSE
    /\ IF scanner_running
       THEN /\ scanner_running' = FALSE
            /\ stop_requested' = {t \in Threads : Alive(t)}
            /\ main_pc' = "stop_join"
            /\ UNCHANGED cap
       ELSE /\ main_pc' = "stopped"
            /\ cap' = FALSE
            /\ UNCHANGED <<scanner_running, stop_requested>>
    /\ UNCHANGED <<scanner_thread, thread_pc, self_processed_barcodes, pending_reads>>
    /\ UNCHANGED <<webVars, scannerVars, pairVars, deviceVars>>

\* _delete_product_database, from the settings menu
DeleteProductDatabase ==
    /\ main_pc = "menu"
    /\ self_processed_barcodes # {}
    /\ self_processed_barcodes' = {}
    /\ UNCHANGED <<running, scanner_running, scanner_thread, thread_pc,
                   main_pc, stop_requested, cap, pending_reads>>
    /\ UNCHANGED <<webVars, scannerVars, pairVars, deviceVars>>

\* the test "while self.scanner_running and self.running"
ThreadTest(t) ==
    /\ thread_pc[t] = "test"
    /\ thread_pc' = [thread_pc EXCEPT ![t] =
                       IF scanner_running /\ running THEN "body" ELSE "done"]
    /\ UNCHANGED <<running, scanner_running, scanner_thread,
                   self_processed_barcodes, main_pc, stop_requested, cap, pending_reads>>
    /\ UNCHANGED <<webVars, scannerVars, pairVars, deviceVars>>

\* read_frame returns a frame: the camera's next one
ThreadRead(t) ==
    /\ thread_pc[t] = "body"
    /\ cap
    /\ thread_pc' = [thread_pc EXCEPT ![t] = "frame"]
    /\ pending_reads' = Append(pending_reads, t)
    /\ UNCHANGED <<running, scanner_running, scanner_thread,
                   self_processed_barcodes, main_pc, stop_requested, cap>>
    /\ UNCHANGED <<webVars, scannerVars, pairVars, deviceVars>>

\* the rest of the iteration: verify_barcode on the frame that was read, and a
\* verified barcode that is new is looked up, announced and remembered
ThreadIterate(t, frame) ==
    /\ thread_pc[t] = "frame"
    /\ VerifyFrame(frame)
    /\ self_processed_barcodes' =
         IF verified' # NoCode
         THEN self_processed_barcodes \cup {verified'}
         ELSE self_processed_barcodes
    /\ thread_pc' = [thread_pc EXCEPT ![t] = "test"]
    /\ pending_reads' = SelectSeq(pending_reads, LAMBDA u : u # t)
    /\ UNCHANGED <<running, scanner_running, scanner_thread, main_pc, stop_requested, cap>>
    /\ UNCHANGED <<webVars, pairVars, deviceVars>>

\* one iteration in which read_frame fails
ThreadReadFails(t) ==
    /\ thread_pc[t] = "body"
    /\ thread_pc' = [thread_pc EXCEPT ![t] = "test"]
    /\ UNCHANGED <<running, scanner_running, scanner_thread,
                   self_processed_barcodes, main_pc, stop_requested, cap, pending_reads>>
    /\ UNCHANGED <<webVars, scannerVars, pairVars, deviceVars>>

(***************************************************************************)
(* Actions of the web session                                              *)
(***************************************************************************)
captureVars == <<gf_pc, gf_barcode>>
apiVars == <<pb_pc, pb_barcode>>
confirmHistory == <<remove_request_index, confirm_timeout>>

ButtonPress(button_id, is_long_press) ==
    LET r == HandleButtonPress(Session, button_id, is_long_press)
    IN  /\ Len(r.cart) <= MaxCart
        /\ Install(r)
        /\ remove_request_index' = IF r.confirm = "REMOVE" THEN r.idx ELSE -1
        /\ confirm_timeout' = IF confirm_timeout = "elapsed" THEN "pressed" ELSE "none"
        /\ UNCHANGED <<captureVars, apiVars, scannerVars>>

DialChange(direction) ==
    /\ Install(HandleDialChange(Session, direction))
    /\ UNCHANGED <<captureVars, apiVars, confirmHistory, scannerVars>>

\* the armed Timer runs out and calls _reset_confirm_state; time is not
\* modelled, so a waiting timer may fire at any moment
TimerFire ==
    /\ confirm_timer = "waiting"
    /\ Install(ResetConfirmState(Session))
    /\ remove_request_index' = -1
    /\ confirm_timeout' = "elapsed"
    /\ UNCHANGED <<captureVars, apiVars, scannerVars>>

\* pyzbar decodes barcode c in the frame
GFDetect(c) ==
    /\ gf_pc = "idle"
    /\ gf_pc' = "check"
    /\ gf_barcode' = c
    /\ Install(Session)
    /\ UNCHANGED <<apiVars, confirmHistory, scannerVars>>

GFCheck ==
    /\ gf_pc = "check"
    /\ InstallSeen(GFCheckBody(Session, gf_barcode), {gf_barcode})
    /\ IF GFModeIsScanning(Session)
       THEN gf_pc' = "gate" /\ UNCHANGED gf_barcode
       ELSE gf_pc' = "idle" /\ gf_barcode' = NoCode
    /\ UNCHANGED <<apiVars, confirmHistory, scannerVars>>

\* the unlocked test "barcode_data not in processed_barcodes"
GFGate ==
    /\ gf_pc = "gate"
    /\ Install(Session)
    /\ IF gf_barcode \notin processed_barcodes
       THEN gf_pc' = "apply" /\ UNCHANGED gf_barcode
       ELSE gf_pc' = "idle" /\ gf_barcode' = NoCode
    /\ UNCHANGED <<apiVars, confirmHistory, scannerVars>>

GFApply(outcome) ==
    /\ gf_pc = "apply"
    /\ Install(GFApplyBody(Session, gf_barcode, outcome))
    /\ gf_pc' = "idle"
    /\ gf_barcode' = NoCode
    /\ UNCHANGED <<apiVars, confirmHistory, scannerVars>>

\* POST /api/process_barcode up to the lookup
PBStart(c, outcome) ==
    /\ pb_pc = "idle"
    /\ Install(Session)
    /\ IF c \notin processed_barcodes /\ LookupBarcode(c, outcome).found
       THEN pb_pc' = "found" /\ pb_barcode' = c
       ELSE UNCHANGED apiVars
    /\ UNCHANGED <<captureVars, confirmHistory, scannerVars>>

\* ... and its update of last_scanned_product and processed_barcodes
PBApplyBody(s, c) ==
    [s EXCEPT !.last = <<[barcode |-> c, name |-> CatalogName(c)]>>,
              !.processed = @ \cup {c}]

PBApply ==
    /\ pb_pc = "found"
    /\ Install(PBApplyBody(Session, pb_barcode))
    /\ pb_pc' = "idle"
    /\ pb_barcode' = NoCode
    /\ UNCHANGED <<captureVars, confirmHistory, scannerVars>>

\* POST /api/reset_database
ResetDatabaseBody(s) == [s EXCEPT !.processed = {}]

ResetDatabase ==
    /\ Install(ResetDatabaseBody(Session))
    /\ UNCHANGED <<captureVars, apiVars, confirmHistory, scannerVars>>

(***************************************************************************)
(* audio/speech.py: speak_async, stop_speaking and the speech worker       *)
(***************************************************************************)
Texts == 1..MaxTexts

\* a priority call makes a new Queue object; there are at most as many as texts
QueueIds == 1..(MaxTexts + 1)

\* speak_async(text, priority): the text is put on the queue, or first on a
\* new temporary queue
SpeakAsync(priority) ==
    /\ sa_pc = "idle"
    /\ next_text < MaxTexts
    /\ next_text' = next_text + 1
    /\ IF priority
       THEN /\ queue_items' = [queue_items EXCEPT ![speech_queue + 1] = <<next_text + 1>>]
            /\ sa_pc' = "drain"
            /\ prio_text' = next_text + 1
            /\ prio_queued' = queue_items[speech_queue]
       ELSE /\ queue_items' = [queue_items EXCEPT ![speech_queue] = Append(@, next_text + 1)]
            /\ sa_pc' = "start"
            /\ UNCHANGED <<prio_text, prio_queued>>
    /\ UNCHANGED <<speech_queue, speech_stop_requested, sw_pc, sw_queue, sw_text,
                   spoken, stop_called>>

\* the test "while not self.speech_queue.empty()"
DrainTest ==
    /\ sa_pc = "drain"
    /\ sa_pc' = IF queue_items[speech_queue] = <<>> THEN "replace" ELSE "get"
    /\ UNCHANGED <<speech_queue, queue_items, speech_stop_requested, sw_pc, sw_queue,
                   sw_text, spoken, next_text, stop_called, prio_text, prio_queued>>

\* temp_queue.put(self.speech_queue.get()): get() blocks while the queue is empty
DrainGet ==
    /\ sa_pc = "get"
    /\ queue_items[speech_queue] # <<>>
    /\ queue_items' = [queue_items EXCEPT
                         ![speech_queue] = Tail(@),
                         ![speech_queue + 1] = Append(@, Head(queue_items[speech_queue]))]
    /\ sa_pc' = "drain"
    /\ UNCHANGED <<speech_queue, speech_stop_requested, sw_pc, sw_queue, sw_text,
                   spoken, next_text, stop_called, prio_text, prio_queued>>

\* self.speech_queue = temp_queue
ReplaceQueue ==
    /\ sa_pc = "replace"
    /\ speech_queue' = speech_queue + 1
    /\ sa_pc' = "start"
    /\ UNCHANGED <<queue_items, speech_stop_requested, sw_pc, sw_queue, sw_text,
                   spoken, next_text, stop_called, prio_text, prio_queued>>

\* "if self.speech_thread is None or not self.speech_thread.is_alive()"
StartSpeechThread ==
    /\ sa_pc = "start"
    /\ sa_pc' = "idle"
    /\ IF sw_pc = "dead"
       THEN sw_pc' = "test" /\ speech_stop_requested' = FALSE
       ELSE UNCHANGED <<sw_pc, speech_stop_requested>>
    /\ UNCHANGED <<speech_queue, queue_items, sw_queue, sw_text, spoken, next_text,
                   stop_called, prio_text, prio_queued>>

\* stop_speaking: the flag is set and the queue emptied
StopSpeaking ==
    /\ sa_pc = "idle"
    /\ speech_stop_requested' = TRUE
    /\ queue_items' = [queue_items EXCEPT ![speech_queue] = <<>>]
    /\ stop_called' = TRUE
    /\ UNCHANGED <<speech_queue, sa_pc, sw_pc, sw_queue, sw_text, spoken, next_text,
                   prio_text, prio_queued>>

\* the worker's test "while not self.stop_requested" and the evaluation of
\* self.speech_queue for the get that follows
WorkerTest ==
    /\ sw_pc = "test"
    /\ IF speech_stop_requested
       THEN sw_pc' = "exit" /\ UNCHANGED sw_queue
       ELSE sw_pc' = "get" /\ sw_queue' = speech_queue
    /\ UNCHANGED <<speech_queue, queue_items, speech_stop_requested, sa_pc, sw_text,
                   spoken, next_text, stop_called, prio_text, prio_queued>>

\* get(timeout=0.5) returns a text
WorkerGet ==
    /\ sw_pc = "get"
    /\ queue_items[sw_queue] # <<>>
    /\ sw_text' = Head(queue_items[sw_queue])
    /\ queue_items' = [queue_items EXCEPT ![sw_queue] = Tail(@)]
    /\ sw_pc' = "speak"
    /\ UNCHANGED <<speech_queue, speech_stop_requested, sa_pc, sw_queue, spoken,
                   next_text, stop_called, prio_text, prio_queued>>

\* get(timeout=0.5) raises queue.Empty: the worker leaves its loop
WorkerTimeout ==
    /\ sw_pc = "get"
    /\ queue_items[sw_queue] = <<>>
    /\ sw_pc' = "exit"
    /\ UNCHANGED <<speech_queue, queue_items, speech_stop_requested, sa_pc, sw_queue,
                   sw_text, spoken, next_text, stop_called, prio_text, prio_queued>>

\* self.speak(text)
WorkerSpeak ==
    /\ sw_pc = "speak"
    /\ spoken' = Append(spoken, sw_text)
    /\ sw_text' = 0
    /\ sw_pc' = "test"
    /\ UNCHANGED <<speech_queue, queue_items, speech_stop_requested, sa_pc, sw_queue,
                   next_text, stop_called, prio_text, prio_queued>>

\* the worker thread has ended: is_alive() is false from here on
WorkerExit ==
    /\ sw_pc = "exit"
    /\ sw_pc' = "dead"
    /\ UNCHANGED <<speech_queue, queue_items, speech_stop_requested, sa_pc, sw_queue,
                   sw_text, spoken, next_text, stop_called, prio_text, prio_queued>>

otherThanSpeech == <<webVars, scannerVars, pairVars, mainVars, cameraVars, buttonVars>>

SpeechNext ==
    \/ \E priority \in BOOLEAN : SpeakAsync(priority) /\ UNCHANGED otherThanSpeech
    \/ DrainTest /\ UNCHANGED otherThanSpeech
    \/ DrainGet /\ UNCHANGED otherThanSpeech
    \/ ReplaceQueue /\ UNCHANGED otherThanSpeech
    \/ StartSpeechThread /\ UNCHANGED otherThanSpeech
    \/ StopSpeaking /\ UNCHANGED otherThanSpeech
    \/ WorkerTest /\ UNCHANGED otherThanSpeech
    \/ WorkerGet /\ UNCHANGED otherThanSpeech
    \/ WorkerTimeout /\ UNCHANGED otherThanSpeech
    \/ WorkerSpeak /\ UNCHANGED otherThanSpeech
    \/ WorkerExit /\ UNCHANGED otherThanSpeech

\* SpeechManager.__init__
SpeechInit ==
    /\ speech_queue = 1
    /\ queue_items = [q \in QueueIds |-> <<>>]
    /\ speech_stop_requested = FALSE
    /\ sa_pc = "idle"
    /\ sw_pc = "dead"
    /\ sw_queue = 1
    /\ sw_text = 0
    /\ spoken = <<>>
    /\ next_text = 0
    /\ stop_called = FALSE
    /\ prio_text = 0
    /\ prio_queued = <<>>

(***************************************************************************)
(* web_app.py: the camera, camera_lock and the threads that use them: the  *)
(* capture loop generate_frames ("gf") and the settings endpoint ("api")   *)
(***************************************************************************)
CameraIndices == 0..(camera_indices_tried - 1)

CamThreads == {"gf", "api"}

\* the body of initialize_camera under camera_lock: the selected index if it
\* works, else the first index of range(5) that works; a VideoCapture the
\* program keeps is an opened one
InitializeCameraBody ==
    IF camera # NoCamera
    THEN UNCHANGED <<camera, selected_camera_index>>
    ELSE IF selected_camera_index \in working
    THEN camera' = selected_camera_index /\ UNCHANGED selected_camera_index
    ELSE IF working # {}
    THEN LET index == CHOOSE i \in working : \A j \in working : i <= j
         IN  camera' = index /\ selected_camera_index' = index
    ELSE UNCHANGED <<camera, selected_camera_index>>

\* the body of release_camera under camera_lock
ReleaseCameraBody ==
    /\ camera' = NoCamera
    /\ UNCHANGED selected_camera_index

\* a thread enters the function it is about to call: "with camera_lock" of a
\* threading.Lock waits until the lock is free, whoever holds it; the body
\* runs and the lock is released
CameraCall(th) ==
    /\ cam_pc[th] = "call"
    /\ camera_lock = "free"
    /\ IF Head(cam_todo[th]) = "release_camera"
       THEN ReleaseCameraBody
       ELSE InitializeCameraBody
    /\ cam_todo' = [cam_todo EXCEPT ![th] = Tail(@)]
    /\ cam_pc' = [cam_pc EXCEPT ![th] =
                    IF Tail(cam_todo[th]) = <<>> THEN cam_ret[th] ELSE "call"]
    /\ UNCHANGED <<camera_lock, working, cam_ret>>

\* generate_frames before its loop: initialize_camera()
GFStartCamera ==
    /\ cam_pc["gf"] = "start"
    /\ cam_pc' = [cam_pc EXCEPT !["gf"] = "call"]
    /\ cam_todo' = [cam_todo EXCEPT !["gf"] = <<"initialize_camera">>]
    /\ cam_ret' = [cam_ret EXCEPT !["gf"] = "loop"]
    /\ UNCHANGED <<camera, camera_lock, selected_camera_index, working>>

\* the top of the loop: "with camera_lock"
GFEnterLock ==
    /\ cam_pc["gf"] = "loop"
    /\ camera_lock = "free"
    /\ camera_lock' = "gf"
    /\ cam_pc' = [cam_pc EXCEPT !["gf"] = "locked"]
    /\ UNCHANGED <<camera, selected_camera_index, working, cam_todo, cam_ret>>

\* inside "with camera_lock": without a camera, release_camera() and
\* initialize_camera() are called and the camera is tested again ("recheck");
\* with one, a frame is read; leaving the block frees the lock
GFUnderLock ==
    /\ cam_pc["gf"] \in {"locked", "recheck"}
    /\ IF camera = NoCamera
       THEN IF cam_pc["gf"] = "locked"
            THEN /\ cam_pc' = [cam_pc EXCEPT !["gf"] = "call"]
                 /\ cam_todo' = [cam_todo EXCEPT
                                   !["gf"] = <<"release_camera", "initialize_camera">>]
                 /\ cam_ret' = [cam_ret EXCEPT !["gf"] = "recheck"]
                 /\ UNCHANGED camera_lock
            ELSE \* the placeholder image is sent
                 /\ cam_pc' = [cam_pc EXCEPT !["gf"] = "loop"]
                 /\ camera_lock' = "free"
                 /\ UNCHANGED <<cam_todo, cam_ret>>
       ELSE \* camera.read(), successful or not
            /\ cam_pc' = [cam_pc EXCEPT !["gf"] = "loop"]
            /\ camera_lock' = "free"
            /\ UNCHANGED <<cam_todo, cam_ret>>
    /\ UNCHANGED <<camera, selected_camera_index, working>>

\* POST of the settings with a camera_index: a changed index releases the camera
UpdateDevices(new_camera_index) ==
    /\ cam_pc["api"] = "idle"
    /\ IF new_camera_index # selected_camera_index
       THEN /\ cam_todo' = [cam_todo EXCEPT !["api"] = <<"release_camera">>]
            /\ cam_ret' = [cam_ret EXCEPT !["api"] = "select"]
            /\ requested_index' = new_camera_index
       ELSE /\ cam_todo' = [cam_todo EXCEPT !["api"] = <<"initialize_camera">>]
            /\ cam_ret' = [cam_ret EXCEPT !["api"] = "idle"]
            /\ UNCHANGED requested_index
    /\ cam_pc' = [cam_pc EXCEPT !["api"] = "call"]
    /\ UNCHANGED <<camera, camera_lock, selected_camera_index, working>>

\* the index is stored and the new camera is tested with initialize_camera()
SelectCamera ==
    /\ cam_pc["api"] = "select"
    /\ selected_camera_index' = requested_index
    /\ cam_pc' = [cam_pc EXCEPT !["api"] = "call"]
    /\ cam_todo' = [cam_todo EXCEPT !["api"] = <<"initialize_camera">>]
    /\ cam_ret' = [cam_ret EXCEPT !["api"] = "idle"]
    /\ UNCHANGED <<camera, camera_lock, working>>

\* a camera is plugged in or pulled out
Replug(i) ==
    /\ working' = IF i \in working THEN working \ {i} ELSE working \cup {i}
    /\ UNCHANGED <<camera, camera_lock, selected_camera_index, cam_pc, cam_todo, cam_ret>>

otherThanCamera == <<webVars, scannerVars, pairVars, mainVars, speechVars, buttonVars>>

CameraNext ==
    \/ \E th \in CamThreads : CameraCall(th) /\ UNCHANGED <<requested_index, otherThanCamera>>
    \/ GFStartCamera /\ UNCHANGED <<requested_index, otherThanCamera>>
    \/ GFEnterLock /\ UNCHANGED <<requested_index, otherThanCamera>>
    \/ GFUnderLock /\ UNCHANGED <<requested_index, otherThanCamera>>
    \/ \E i \in CameraIndices \cup {NoCamera} : UpdateDevices(i) /\ UNCHANGED otherThanCamera
    \/ SelectCamera /\ UNCHANGED <<requested_index, otherThanCamera>>
    \/ \E i \in CameraIndices : Replug(i) /\ UNCHANGED <<requested_index, otherThanCamera>>

\* web_app.py after import, every camera working
CameraInit ==
    /\ camera = NoCamera
    /\ camera_lock = "free"
    /\ selected_camera_index = NoCamera
    /\ working = CameraIndices
    /\ cam_pc = [th \in CamThreads |-> IF th = "gf" THEN "start" ELSE "idle"]
    /\ cam_todo = [th \in CamThreads |-> <<>>]
    /\ cam_ret = [th \in CamThreads |-> "idle"]
    /\ requested_index = NoCamera

(***************************************************************************)
(* interface/button_controller.py: the GPIO callback, the callback worker  *)
(* and the calls made by the program that owns the controller.  A callback *)
(* is taken to be registered for every button in every mode.               *)
(***************************************************************************)
ButtonIndices == 0..(MaxButtons - 1)
ButtonModes == {MODE_NORMAL, MODE_MENU, MODE_CONFIRMATION}
Workers == 1..MaxWorkers

\* the clock advances by a tenth of a second
ClockTick ==
    /\ clock < MaxClock
    /\ clock' = clock + 1
    /\ UNCHANGED <<button_running, button_mode, button_last_press, callback_queue,
                   worker_pc, worker_item, invoked, accepted, next_press, last_press_accepted>>

\* _button_callback(button_idx): the debounce test and the put on the queue
ButtonCallback(button_idx) ==
    /\ next_press < MaxPresses
    /\ IF clock - button_last_press[button_idx] > debounce_time
       THEN LET press == [id |-> next_press + 1, button |-> button_idx,
                          mode |-> button_mode, time |-> clock]
            IN  /\ button_last_press' = [button_last_press EXCEPT ![button_idx] = clock]
                /\ callback_queue' = Append(callback_queue, press)
                /\ accepted' = IF button_running THEN Append(accepted, press) ELSE accepted
                /\ next_press' = next_press + 1
                /\ last_press_accepted' = TRUE
       ELSE /\ last_press_accepted' = FALSE
            /\ UNCHANGED <<button_last_press, callback_queue, accepted, next_press>>
    /\ UNCHANGED <<button_running, button_mode, worker_pc, worker_item, invoked, clock>>

\* set_mode(mode)
SetMode(mode) ==
    /\ button_mode' = mode
    /\ UNCHANGED <<button_running, button_last_press, callback_queue, worker_pc,
                   worker_item, invoked, accepted, next_press, last_press_accepted, clock>>

\* start(): a new callback thread unless the controller is running
ButtonStart ==
    /\ ~button_running
    /\ \E w \in Workers :
          /\ worker_pc[w] = "unborn"
          /\ \A u \in Workers : u < w => worker_pc[u] # "unborn"
          /\ worker_pc' = [worker_pc EXCEPT ![w] = "test"]
    /\ button_running' = TRUE
    /\ UNCHANGED <<button_mode, button_last_press, callback_queue, worker_item,
                   invoked, accepted, next_press, last_press_accepted, clock>>

\* stop(): the flag is cleared and the queue emptied; the thread is not joined
ButtonStop ==
    /\ button_running
    /\ button_running' = FALSE
    /\ callback_queue' = <<>>
    /\ UNCHANGED <<button_mode, button_last_press, worker_pc, worker_item,
                   invoked, accepted, next_press, last_press_accepted, clock>>

\* _callback_worker: "while self.running"
WorkerLoopTest(w) ==
    /\ worker_pc[w] = "test"
    /\ worker_pc' = [worker_pc EXCEPT ![w] = IF button_running THEN "get" ELSE "done"]
    /\ UNCHANGED <<button_running, button_mode, button_last_press, callback_queue,
                   worker_item, invoked, accepted, next_press, last_press_accepted, clock>>

\* callback_queue.get(timeout=0.1): the oldest press, or queue.Empty and continue
WorkerQueueGet(w) ==
    /\ worker_pc[w] = "get"
    /\ IF callback_queue # <<>>
       THEN /\ worker_item' = [worker_item EXCEPT ![w] = <<Head(callback_queue)>>]
            /\ callback_queue' = Tail(callback_queue)
            /\ worker_pc' = [worker_pc EXCEPT ![w] = "call"]
       ELSE /\ worker_pc' = [worker_pc EXCEPT ![w] = "test"]
            /\ UNCHANGED <<worker_item, callback_queue>>
    /\ UNCHANGED <<button_running, button_mode, button_last_press, invoked, accepted,
                   next_press, last_press_accepted, clock>>

\* the callback of the press's mode and button is called
WorkerInvoke(w) ==
    /\ worker_pc[w] = "call"
    /\ invoked' = Append(invoked, worker_item[w][1])
    /\ worker_item' = [worker_item EXCEPT ![w] = <<>>]
    /\ worker_pc' = [worker_pc EXCEPT ![w] = "test"]
    /\ UNCHANGED <<button_running, button_mode, button_last_press, callback_queue,
                   accepted, next_press, last_press_accepted, clock>>

otherThanButtons == <<webVars, scannerVars, pairVars, mainVars, speechVars, cameraVars>>

ButtonNext ==
    \/ ClockTick /\ UNCHANGED otherThanButtons
    \/ \E button_idx \in ButtonIndices : ButtonCallback(button_idx) /\ UNCHANGED otherThanButtons
    \/ \E mode \in ButtonModes : SetMode(mode) /\ UNCHANGED otherThanButtons
    \/ ButtonStart /\ UNCHANGED otherThanButtons
    \/ ButtonStop /\ UNCHANGED otherThanButtons
    \/ \E w \in Workers : WorkerLoopTest(w) /\ UNCHANGED otherThanButtons
    \/ \E w \in Workers : WorkerQueueGet(w) /\ UNCHANGED otherThanButtons
    \/ \E w \in Workers : WorkerInvoke(w) /\ UNCHANGED otherThanButtons

\* ButtonController.__init__; time.time() is far beyond the initial stamps
ButtonInit ==
    /\ button_running = FALSE
    /\ button_mode = MODE_NORMAL
    /\ button_last_press = [b \in ButtonIndices |-> 0]
    /\ callback_queue = <<>>
    /\ worker_pc = [w \in Workers |-> "unborn"]
    /\ worker_item = [w \in Workers |-> <<>>]
    /\ invoked = <<>>
    /\ accepted = <<>>
    /\ next_press = 0
    /\ last_press_accepted = FALSE
    /\ clock = debounce_time + 1

DeviceInit == SpeechInit /\ CameraInit /\ ButtonInit

\* web_app.py: the module globals after import
SessionInit ==
    /\ current_mode = "SCANNING"
    /\ last_scanned_product = None
    /\ processed_barcodes = {}
    /\ shopping_cart = <<>>
    /\ cart_index = -1
    /\ confirm_action = "None"
    /\ confirm_timer = "None"
    /\ said = <<>>
    /\ gf_pc = "idle"
    /\ gf_barcode = NoCode
    /\ pb_pc = "idle"
    /\ pb_barcode = NoCode
    /\ remove_request_index = -1
    /\ confirm_timeout = "none"
    /\ period_codes = {}

\* BarcodeScanner.__init__
ScannerInit ==
    /\ last_barcode = NoCode
    /\ consecutive_detections = 0
    /\ no_detection_count = 0
    /\ verified = NoCode
    /\ hold_code = NoCode
    /\ hold_len = 0
    /\ hold_emits = 0
    /\ alt_len = 0
    /\ alt_code = NoCode
    /\ alt_first_emit = FALSE
    /\ alt_first_hits = 0
    /\ rescan = NoRescan
    /\ multi_seen = FALSE
    /\ last_barcode_age = MaxAge
    /\ miss_run = 0
    /\ kept_last = NoCode
    /\ kept_hits = 0
    /\ tracking = [last |-> NoCode, hits |-> 0, misses |-> 0, result |-> NoCode,
                   age |-> MaxAge]
    /\ fed = 0

\* SmartKart.__init__
MainInit ==
    /\ running = FALSE
    /\ scanner_running = FALSE
    /\ scanner_thread = 0
    /\ thread_pc = [t \in Threads |-> "unborn"]
    /\ self_processed_barcodes = {}
    /\ main_pc = "constructed"
    /\ stop_requested = {}
    /\ cap = FALSE
    /\ pending_reads = <<>>

Init ==
    SessionInit /\ ScannerInit /\ MainInit /\ DeviceInit /\ observing_periods = FALSE /\ input = <<>>

Next ==
    \/ \E in \in ButtonInputs : ButtonPress(in[1], in[2])
    \/ \E d \in Directions : DialChange(d)
    \/ TimerFire
    \/ \E c \in Codes : GFDetect(c)
    \/ GFCheck
    \/ GFGate
    \/ \E o \in Outcomes : GFApply(o)
    \/ \E c \in Codes, o \in Outcomes : PBStart(c, o)
    \/ PBApply
    \/ ResetDatabase

\* the steps taken inside "with state_lock:": the two locked sections of the
\* capture loop and the bodies of the button and dial handlers
HoldsStateLock ==
    \/ GFCheck
    \/ \E o \in Outcomes : GFApply(o)
    \/ \E in \in ButtonInputs : ButtonPress(in[1], in[2])
    \/ \E d \in Directions : DialChange(d)

Spec == Init /\ [][Next]_vars

\* the same program, with the history of the non-scanning periods kept
PeriodInit ==
    SessionInit /\ ScannerInit /\ MainInit /\ DeviceInit /\ observing_periods = TRUE /\ input = <<>>

PeriodSpec == PeriodInit /\ [][Next]_vars

\* the verifier alone, fed every sequence of frames
VNext == \E frame \in Frames : Observe(frame)

VSpec == Init /\ [][VNext]_vars

\* both scanners fed every sequence of frames, with time passing between frames
TimedNext ==
    \/ \E frame \in Frames : ObserveBoth(frame)
    \/ Tick

TimedSpec == Init /\ [][TimedNext]_vars

\* a code held in front of the camera, frame after frame
SteadyInputs == {[i \in 1..n |-> c] : n \in 1..MaxHold, c \in Codes}

\* two codes in turn, another one in every frame
AlternatingInputs ==
    {[i \in 1..n |-> IF i % 2 = 1 THEN c ELSE CHOOSE d \in Codes : d # c] :
        n \in 2..MaxHold, c \in Codes}

PairInit ==
    /\ SessionInit /\ ScannerInit /\ MainInit /\ DeviceInit /\ observing_periods = FALSE
    /\ input \in SteadyInputs \cup AlternatingInputs

PairSpec == PairInit /\ [][Feed]_vars

\* main.py: the menu thread and the background scanner threads
CaptureNext ==
    \/ Start
    \/ \E camera_ok \in BOOLEAN : StartBackgroundScanning(camera_ok)
    \/ StopBackgroundScanning
    \/ JoinReturns
    \/ Stop
    \/ DeleteProductDatabase
    \/ \E t \in Threads : ThreadTest(t)
    \/ \E t \in Threads : ThreadRead(t)
    \/ \E t \in Threads, frame \in Frames : ThreadIterate(t, frame)
    \/ \E t \in Threads : ThreadReadFails(t)

CaptureSpec == Init /\ [][CaptureNext]_vars

\* audio/speech.py: one thread calling speak_async and stop_speaking, and the worker
SpeechSpec == Init /\ [][SpeechNext]_vars

\* web_app.py: the capture loop and the settings endpoint sharing the camera
CameraSpec == Init /\ [][CameraNext]_vars

\* interface/button_controller.py: presses, mode changes, start and stop, and the
\* callback threads
ButtonSpec == Init /\ [][ButtonNext]_vars


(***************************************************************************)
(* Properties                                                              *)
(***************************************************************************)

\* C1: the pending item (last_scanned_product) is set if and only if the
\* mode is ITEM_SCANNED.
C1_PendingIffItemScanned ==
    (last_scanned_product # None) <=> (current_mode = "ITEM_SCANNED")

\* C2: the cart cursor is defined (cart_index >= 0) if and only if the mode is
\* CART_REVIEW and the cart is not empty, and a defined cursor is an index of
\* the cart; an undefined cursor is -1.
C2_CursorDefined ==
    /\ (cart_index >= 0) <=> (current_mode = "CART_REVIEW" /\ shopping_cart # <<>>)
    /\ cart_index >= 0 => cart_index < Len(shopping_cart)
    /\ cart_index >= -1

\* a confirmed removal of the last of two items has pulled the cursor back
C2_Witness ==
    /\ current_mode = "CART_REVIEW"
    /\ Len(shopping_cart) = 1
    /\ cart_index = 0
    /\ said = <<"Removed.", "Item.">>

\* C3: a code held in min_consecutive_detections or more consecutive frames,
\* no other code and no empty frame in between, has been emitted exactly once
\* during that hold, however long the hold lasts (stated for frame sequences
\* in which no frame carries more than one detection).
C3_OneScanPerHold ==
    (~multi_seen /\ hold_len >= min_consecutive_detections) => hold_emits = 1

\* C4 as stated: in a sequence of frames that alternates between codes on
\* every frame, started in any verifier state, no frame emits a verified scan
\* (stated for frame sequences in which no frame carries more than one
\* detection).
C4_AlternationNeverEmits ==
    (~multi_seen /\ alt_len >= 2) => (verified = NoCode /\ ~alt_first_emit)

\* C4, amended: no frame of an alternating sequence after its first emits a
\* verified scan, and the first frame emits only if the verifier already held
\* min_consecutive_detections - 1 hits of that frame's code.
C4_AlternationEmitsOnlyAtStart ==
    /\ alt_len >= 2 => verified = NoCode
    /\ alt_first_emit => alt_first_hits >= min_consecutive_detections - 1

\* an alternation is in progress: the code just shown replaced the one before
C4_Witness ==
    /\ alt_len >= 2
    /\ ~alt_first_emit
    /\ last_barcode = alt_code
    /\ consecutive_detections = 1

\* C5: once a code was verified, then no code was detected for at least
\* max_no_detection_frames consecutive frames, then the code was detected for
\* min_consecutive_detections consecutive frames, it has been emitted again.
C5_RescanAfterLoss ==
    rescan.hold >= min_consecutive_detections => rescan.emitted

C5_Witness ==
    /\ rescan.code # NoCode
    /\ rescan.gap >= max_no_detection_frames
    /\ rescan.hold = min_consecutive_detections
    /\ verified = rescan.code

\* C6: whenever the capture loop finishes with a decoded code while the mode
\* is SCANNING and the code is not in the cart, the pending item is that code
\* and the mode is ITEM_SCANNED (stated for the visits to SCANNING in which no
\* product is remembered as last scanned, as after a cancel or an add).
C6_ScanSetsPending ==
    [][(/\ gf_pc # "idle"
        /\ gf_pc' = "idle"
        /\ current_mode = "SCANNING"
        /\ last_scanned_product = None
        /\ ~InCart(shopping_cart, gf_barcode))
       => (/\ current_mode' = "ITEM_SCANNED"
           /\ last_scanned_product' # None
           /\ last_scanned_product'[1].barcode = gf_barcode)]_vars

\* C7: the barcodes in the cart are pairwise distinct.
C7_NoDuplicateBarcodes ==
    \A i, j \in 1..Len(shopping_cart) :
        i # j => shopping_cart[i].barcode # shopping_cart[j].barcode

\* C8: confirmAdd (SELECT_CONFIRM) in ITEM_SCANNED with a pending item that
\* was found appends exactly that item to the end of the cart, clears the
\* pending item and sets the mode to SCANNING.
C8_ConfirmAddAppends ==
    [][(/\ current_mode = "ITEM_SCANNED"
        /\ last_scanned_product # None
        /\ last_scanned_product[1].name # NotFoundName
        /\ ButtonPress("SELECT_CONFIRM", FALSE))
       => (/\ shopping_cart' = Append(shopping_cart, last_scanned_product[1])
           /\ last_scanned_product' = None
           /\ current_mode' = "SCANNING")]_vars

\* an item was added behind an item already in the cart
C8_Witness ==
    /\ said = <<"Added to cart.">>
    /\ Len(shopping_cart) = 2
    /\ current_mode = "SCANNING"
    /\ last_scanned_product = None

\* C9: a scan whose lookup reports not-found or fails with a transport error
\* moves the session from SCANNING to ITEM_SCANNED with a pending item flagged
\* 'Product Not Found', and confirmAdd on such a pending item changes neither
\* the mode, nor the pending item, nor the cart.
C9_NotFoundRejected ==
    [][/\ \A o \in {"notfound", "error"} :
            (/\ gf_pc = "apply"
             /\ current_mode = "SCANNING"
             /\ ~InCart(shopping_cart, gf_barcode)
             /\ GFApply(o))
            => (/\ current_mode' = "ITEM_SCANNED"
                /\ last_scanned_product' =
                       <<[barcode |-> gf_barcode, name |-> NotFoundName]>>)
       /\ (/\ current_mode = "ITEM_SCANNED"
           /\ last_scanned_product # None
           /\ last_scanned_product[1].name = NotFoundName
           /\ ButtonPress("SELECT_CONFIRM", FALSE))
          => UNCHANGED <<current_mode, last_scanned_product, shopping_cart>>]_vars

\* confirmAdd was just rejected for an item that was not found
C9_Witness ==
    /\ current_mode = "ITEM_SCANNED"
    /\ last_scanned_product # None
    /\ last_scanned_product[1].name = NotFoundName
    /\ said = <<"Cannot add unknown product.">>

\* C10: confirmAdd (SELECT_CONFIRM) outside ITEM_SCANNED changes neither
\* the cart, nor the mode, nor the cursor.
C10_ConfirmAddNoOp ==
    [][(current_mode # "ITEM_SCANNED" /\ ButtonPress("SELECT_CONFIRM", FALSE))
       => UNCHANGED <<shopping_cart, current_mode, cart_index>>]_vars

\* confirmAdd was pressed while SCANNING, with a product still remembered
C10_Witness ==
    /\ current_mode = "SCANNING"
    /\ last_scanned_product # None
    /\ last_scanned_product[1].name # NotFoundName
    /\ shopping_cart # <<>>
    /\ said = <<"Please scan an item first.">>

\* C11: a confirmRemove (BACK_CANCEL while a REMOVE confirmation is pending)
\* removes exactly the cart item that was at the cursor when the removal was
\* requested, whatever dial changes were made in between.
C11_RemovesRequestedItem ==
    [][(confirm_action = "REMOVE" /\ ButtonPress("BACK_CANCEL", FALSE))
       => shopping_cart' = Pop(shopping_cart, remove_request_index)]_vars

\* C12: while a REMOVE or CLEAR confirmation is pending, every button press
\* other than the matching confirm, and every dial change, clears the pending
\* confirmation and then has the effect of its own rule.
C12_OtherActionDiscardsConfirmation ==
    [][/\ \A in \in ButtonInputs :
            (/\ confirm_action # "None"
             /\ ~(confirm_action = "REMOVE" /\ in[1] = "BACK_CANCEL")
             /\ ~(confirm_action = "CLEAR" /\ in[1] = "HELP_CLEAR")
             /\ ButtonPress(in[1], in[2]))
            => LET own == NormalButton(ResetConfirmState(Session), in[1], in[2])
               IN  /\ current_mode' = own.mode
                   /\ shopping_cart' = own.cart
                   /\ cart_index' = own.idx
                   /\ last_scanned_product' = own.last
                   /\ confirm_action' = own.confirm
       /\ \A d \in Directions :
            (confirm_action # "None" /\ DialChange(d))
            => LET own == HandleDialChange(ResetConfirmState(Session), d)
               IN  /\ confirm_action' = "None"
                   /\ current_mode' = own.mode
                   /\ shopping_cart' = own.cart
                   /\ cart_index' = own.idx]_vars

\* C13: a confirmed removal at cursor i of an n-item cart leaves the old cart
\* without its element at index i, the others in their order; the cursor
\* becomes -1 if the cart is now empty and min(i, n-2) otherwise; the mode
\* stays CART_REVIEW.
C13_ConfirmedRemoval ==
    [][(confirm_action = "REMOVE" /\ ButtonPress("BACK_CANCEL", FALSE))
       => LET i == cart_index
              n == Len(shopping_cart)
          IN  /\ current_mode = "CART_REVIEW"
              /\ 0 <= i /\ i < n
              /\ Len(shopping_cart') = n - 1
              /\ \A k \in 1..(n - 1) :
                     shopping_cart'[k] = shopping_cart[IF k <= i THEN k ELSE k + 1]
              /\ cart_index' = IF n = 1 THEN -1 ELSE Min(i, n - 2)
              /\ current_mode' = "CART_REVIEW"]_vars

\* from cart [A, B] with the cursor on B, the removal left [A] with the cursor
\* on A
C13_Witness ==
    /\ current_mode = "CART_REVIEW"
    /\ Len(shopping_cart) = 1
    /\ shopping_cart[1].barcode = "A"
    /\ "B" \in processed_barcodes
    /\ cart_index = 0
    /\ confirm_action = "None"
    /\ said = <<"Removed.", "Item.">>

C15_ExpiredConfirmationIgnored ==
    [][/\ confirm_timeout' = "elapsed" => confirm_action' = "None"
       /\ \A in \in ButtonInputs :
            (confirm_timeout = "elapsed" /\ ButtonPress(in[1], in[2]))
            => LET own == NormalButton(Session, in[1], in[2])
               IN  /\ current_mode' = own.mode
                   /\ shopping_cart' = own.cart
                   /\ cart_index' = own.idx
                   /\ last_scanned_product' = own.last
                   /\ confirm_action' = own.confirm
                   /\ said' = own.said
                   /\ Len(shopping_cart') >= Len(shopping_cart)]_vars

\* the confirming button of a removal was pressed after the Timer ran out: it
\* was handled as a button without a meaning
C15_Witness ==
    /\ confirm_timeout = "pressed"
    /\ said = <<"Unknown button pressed.">>
    /\ current_mode = "CART_REVIEW"
    /\ cart_index >= 0
    /\ confirm_action = "None"

C17_RejectedLeavesState ==
    LET NotAllowedHere(button_id, is_long_press) ==
            \/ button_id \in {"UNKNOWN", "UNUSED_B5"}
            \/ button_id = "BACK_CANCEL" /\ confirm_action # "REMOVE"
            \/ button_id = "BACK_CANCEL_DELETE" /\ current_mode = "SCANNING"
            \/ button_id = "BACK_CANCEL_DELETE" /\ current_mode = "CART_REVIEW"
                                                /\ shopping_cart = <<>>
            \/ button_id = "INFO_ALLERGENS" /\ current_mode # "ITEM_SCANNED"
            \/ button_id = "HELP_CLEAR" /\ is_long_press /\ confirm_action # "CLEAR"
                  /\ (current_mode # "CART_REVIEW" \/ shopping_cart = <<>>)
        Same(r) == /\ r.mode = current_mode
                   /\ r.last = last_scanned_product
                   /\ r.cart = shopping_cart
                   /\ r.idx = cart_index
    IN  /\ \A in \in ButtonInputs :
             NotAllowedHere(in[1], in[2])
             => LET r == HandleButtonPress(Session, in[1], in[2])
                IN  Same(r) /\ r.confirm = "None"
        /\ \A d \in Directions :
             (current_mode # "CART_REVIEW" \/ shopping_cart = <<>>)
             => Same(HandleDialChange(Session, d))

\* the dial was turned while an item was pending
C17_Witness ==
    /\ said = <<"Dial navigation only available in Cart View.">>
    /\ current_mode = "ITEM_SCANNED"
    /\ last_scanned_product # None
    /\ shopping_cart # <<>>

\* C18: in every reachable state, a button press that changes nothing of the
\* session (mode, pending item, cart, cursor, pending confirmation) makes at
\* least one announcement.
C18_NoSilentRejection ==
    \A in \in ButtonInputs :
        LET r == HandleButtonPress(Session, in[1], in[2])
        IN  (/\ r.mode = current_mode
             /\ r.last = last_scanned_product
             /\ r.cart = shopping_cart
             /\ r.idx = cart_index
             /\ r.confirm = confirm_action)
            => r.said # <<>>

\* C19: while the mode is ITEM_SCANNED or CART_REVIEW, no step that delivers a
\* barcode to the session, from the capture loop or from /api/process_barcode,
\* changes the mode, the pending item, the cart or the cursor.
C19_ScanIgnoredOutsideScanning ==
    [][(/\ current_mode \in {"ITEM_SCANNED", "CART_REVIEW"}
        /\ \/ GFCheck
           \/ GFGate
           \/ \E o \in Outcomes : GFApply(o)
           \/ \E c \in Codes, o \in Outcomes : PBStart(c, o)
           \/ PBApply)
       => UNCHANGED <<current_mode, last_scanned_product,
                      shopping_cart, cart_index>>]_vars

\* C20: while the mode is not SCANNING, the capture loop's mode check makes
\* exactly one announcement for a code it meets for the first time since the
\* mode left SCANNING, and none for a code it has met since then (stated for
\* the codes that are neither the last scanned product nor in the cart).
C20_OneAcknowledgmentPerPeriod ==
    [][(/\ current_mode # "SCANNING"
        /\ last_scanned_product = None \/ last_scanned_product[1].barcode # gf_barcode
        /\ ~InCart(shopping_cart, gf_barcode)
        /\ GFCheck)
       => IF gf_barcode \in period_codes
          THEN said' = <<>>
          ELSE Len(said') = 1]_vars

\* C21: MODE_TOGGLE pressed in ITEM_SCANNED sets the mode to CART_REVIEW,
\* leaves no item pending and the cart as it was, and sets the cursor to 0
\* if the cart is not empty and to -1 otherwise.
C21_EnterCartAbandonsPending ==
    [][(current_mode = "ITEM_SCANNED" /\ ButtonPress("MODE_TOGGLE", FALSE))
       => (/\ current_mode' = "CART_REVIEW"
           /\ last_scanned_product' = None
           /\ shopping_cart' = shopping_cart
           /\ cart_index' = IF shopping_cart # <<>> THEN 0 ELSE -1)]_vars

\* C22: every step that changes the session state (mode, pending item,
\* processed codes, cart, cursor, pending confirmation) is taken while holding
\* state_lock.
C22_MutationsUnderLock ==
    [][~UNCHANGED <<current_mode, last_scanned_product, processed_barcodes,
                    shopping_cart, cart_index, confirm_action>>
       => HoldsStateLock]_vars

\* C23: no step taken while holding state_lock calls the announcer (a
\* blocking speak) or the product lookup.
C23_NoExternalCallUnderLock ==
    [][HoldsStateLock
       => /\ said' = <<>>
          /\ ~(/\ current_mode = "SCANNING"
               /\ ~InCart(shopping_cart, gf_barcode)
               /\ \E o \in Outcomes : GFApply(o))]_vars

\* C24: a pending confirmation is only ever cleared by the handling of a
\* button press; no other step, the Timer callback included, changes the
\* confirmation state.
C24_OnlyPressesClearConfirmation ==
    [][(confirm_action # "None" /\ confirm_action' = "None")
       => \E in \in ButtonInputs : ButtonPress(in[1], in[2])]_vars

\* C25: in every reachable state with a confirmation pending, any button
\* press consumes it: after the press no confirmation is pending unless that
\* press itself requested a new one; a confirming press removes exactly one
\* item (REMOVE) or empties the cart (CLEAR), and the same confirming press
\* handled a second time right after it removes nothing more.
C25_ConfirmationConsumedOnce ==
    confirm_action # "None"
    => \A in \in ButtonInputs :
         LET first == HandleButtonPress(Session, in[1], in[2])
             second == HandleButtonPress(first, in[1], in[2])
         IN  /\ first.confirm # "None"
                => \/ in[1] = "BACK_CANCEL_DELETE"
                   \/ in = <<"HELP_CLEAR", TRUE>> /\ confirm_action = "REMOVE"
             /\ (confirm_action = "REMOVE" /\ in[1] = "BACK_CANCEL")
                => /\ first.confirm = "None"
                   /\ Len(first.cart) = Len(shopping_cart) - 1
                   /\ second.cart = first.cart
                   /\ second.confirm = "None"
             /\ (confirm_action = "CLEAR" /\ in[1] = "HELP_CLEAR")
                => /\ first.confirm = "None"
                   /\ first.cart = <<>>
                   /\ second.cart = <<>>
                   /\ second.confirm = "None"

\* the confirmation of a removal was just consumed, with an item left that a
\* second confirming press could hit
C25_Witness ==
    /\ confirm_action = "None"
    /\ confirm_timer = "None"
    /\ current_mode = "CART_REVIEW"
    /\ Len(said) = 2 /\ said[1] = "Removed."
    /\ Len(shopping_cart) = 1
    /\ shopping_cart[1].barcode = "B"


\* C26: whenever the capture loop of the web session passes a decoded code to
\* the session (the step that makes it the pending item or answers "already
\* in cart"), the verifier has just reported that code as verified.
C26_OnlyVerifiedScansReachSession ==
    [][(\E outcome \in Outcomes : GFApply(outcome)) => verified = gf_barcode]_vars


\* C27: a scanner thread that was alive when scanner_running was cleared
\* begins no new iteration: the next time it tests the loop condition it
\* leaves the loop.
C27_NoIterationAfterStop ==
    [][\A t \in Threads :
         (t \in stop_requested /\ ThreadTest(t)) => thread_pc'[t] = "done"]_vars


\* C28: when more than barcode_timeout seconds have passed since
\* last_barcode_time and a barcode is remembered, verify_barcode on the next
\* frame with at most one detection forgets it: afterwards no barcode is
\* remembered, or the one of that frame is, counted from one.
C28_TimeoutClearsOnNextFrame ==
    [][\A frame \in Frames :
         (/\ last_barcode # NoCode
          /\ last_barcode_age > barcode_timeout
          /\ Len(frame) <= 1
          /\ ObserveBoth(frame))
         => \/ last_barcode' = NoCode
            \/ frame # <<>> /\ last_barcode' = frame[1] /\ consecutive_detections' = 1]_vars


\* C29 (as the code has it): in verify_barcode a frame without a detection
\* only adds one to no_detection_count, last_barcode and
\* consecutive_detections staying as the latest frame with a detection left
\* them, until the run of such frames reaches max_no_detection_frames: the
\* frame that completes the run clears last_barcode and sets both counters
\* to zero. After a frame with a detection no_detection_count is zero.
C29_CandidateDroppedAtMax ==
    /\ miss_run = 0 => no_detection_count = 0
    /\ miss_run \in 1..(max_no_detection_frames - 1)
       => /\ last_barcode = kept_last
          /\ consecutive_detections = kept_hits
          /\ no_detection_count = miss_run
    /\ miss_run = max_no_detection_frames
       => /\ last_barcode = NoCode
          /\ consecutive_detections = 0
          /\ no_detection_count = 0

\* a tracked barcode with hits was lost by the frame that completed the run
C29_Witness ==
    /\ miss_run = max_no_detection_frames
    /\ kept_last # NoCode
    /\ kept_hits > 0
    /\ last_barcode = NoCode

\* C29 as stated: last_barcode and consecutive_detections are kept as long as
\* the run of frames without a detection does not exceed
\* max_no_detection_frames.
C29_CandidateKeptUpToMax ==
    miss_run <= max_no_detection_frames
    => /\ last_barcode = kept_last
       /\ consecutive_detections = kept_hits


\* C30: for every input in which one code is held steady and every input in
\* which two codes alternate strictly, the scanner driven through
\* detect_barcodes and process_barcode and the scanner driven through
\* verify_barcode return the same verified barcode (or none) on every frame,
\* no time passing between the frames.
C30_PathsEmitTheSame == verified = tracking.result


\* C31: while the REMOVE confirmation requested with BACK_CANCEL_DELETE is
\* pending (its timer has not run out), a second press of BACK_CANCEL_DELETE
\* removes the item at the cursor: the cart gets one item shorter and no
\* confirmation stays pending.
C31_SameButtonConfirmsRemove ==
    (current_mode = "CART_REVIEW" /\ confirm_action = "REMOVE" /\ confirm_timer = "waiting")
    => LET r == HandleButtonPress(Session, "BACK_CANCEL_DELETE", FALSE)
       IN  /\ Len(r.cart) = Len(shopping_cart) - 1
           /\ r.confirm = "None"


\* where text x stands in the spoken sequence (0: not spoken)
SpokenAt(x) ==
    IF \E i \in 1..Len(spoken) : spoken[i] = x
    THEN CHOOSE i \in 1..Len(spoken) : spoken[i] = x
    ELSE 0

\* C32, the order of the texts that were queued when a priority text came:
\* as long as stop_speaking has not been called, whenever one of them has
\* been spoken, every one that was queued before it has been spoken earlier.
C32_PriorityKeepsQueuedOrder ==
    (prio_text # 0 /\ ~stop_called)
    => \A i, j \in 1..Len(prio_queued) :
         (i < j /\ SpokenAt(prio_queued[j]) # 0)
         => /\ SpokenAt(prio_queued[i]) # 0
            /\ SpokenAt(prio_queued[i]) < SpokenAt(prio_queued[j])

\* C37: as long as stop_speaking has not been called, when no speak_async
\* call is in progress and no speech worker is alive, no text waits in the
\* speech queue.
C37_NoTextStranded ==
    (sa_pc = "idle" /\ sw_pc = "dead" /\ ~stop_called)
    => queue_items[speech_queue] = <<>>


\* C36: no thread waits for camera_lock while holding it itself (a
\* threading.Lock is never granted to its own holder, so such a thread
\* would wait forever).
C36_NoSelfAcquire ==
    \A th \in CamThreads : ~(cam_pc[th] = "call" /\ camera_lock = th)


\* C33, the order of the frames: whenever a capture thread hands the frame it
\* read to verify_barcode, that frame is the oldest one read and not yet
\* verified.
C33_FramesVerifiedInReadOrder ==
    [][Len(pending_reads') < Len(pending_reads)
       => pending_reads' = Tail(pending_reads)]_vars

\* C38: no two background scanner threads are alive at the same time.
C38_OneCaptureThread ==
    \A t, u \in Threads : (Alive(t) /\ Alive(u)) => t = u

\* C39: scanner_running is set only if a scanner thread has been started by
\* the start request that set it.
C39_RunningImpliesThread ==
    scanner_running => (scanner_thread # 0 /\ thread_pc[scanner_thread] # "unborn")


\* C34: one call of verify_barcode that returns no verified barcode adds at
\* most one hit: afterwards consecutive_detections is at most one more than
\* before for the barcode tracked before, and at most one for another.
C34_OneHitPerFrame ==
    \A frame \in Frames :
        LET v == VerifyBarcode(Scanner, frame)
        IN  v.result = NoCode
            => v.hits <= (IF v.last = last_barcode THEN consecutive_detections ELSE 0) + 1

\* C35: whenever a confirmation is pending the mode is CART_REVIEW and the
\* cart is not empty, and for REMOVE cart_index is an index of the cart; so
\* the press the handler takes as the confirmation removes exactly one item
\* for REMOVE and empties the cart for CLEAR.
C35_PendingOnlyInCartReview ==
    confirm_action # "None"
    => /\ current_mode = "CART_REVIEW"
       /\ shopping_cart # <<>>
       /\ confirm_action = "REMOVE"
          => /\ cart_index >= 0 /\ cart_index < Len(shopping_cart)
             /\ Len(HandleButtonPress(Session, "BACK_CANCEL", FALSE).cart)
                  = Len(shopping_cart) - 1
       /\ confirm_action = "CLEAR"
          => \A long \in BOOLEAN :
                HandleButtonPress(Session, "HELP_CLEAR", long).cart = <<>>

\* a removal is pending for the last item of a full cart after the dial has
\* moved the cursor there
C35_Witness ==
    /\ confirm_action = "REMOVE"
    /\ Len(shopping_cart) = MaxCart
    /\ cart_index = MaxCart - 1
    /\ remove_request_index # cart_index


\* C40: two presses of one button accepted while the controller is running
\* are more than debounce_time apart, and the callbacks are called in the
\* order in which their presses were accepted, none of them twice.
C40_AcceptedPressesDispatchedInOrder ==
    /\ \A i, j \in 1..Len(accepted) :
          (i < j /\ accepted[i].button = accepted[j].button)
          => accepted[j].time - accepted[i].time > debounce_time
    /\ \A i, j \in 1..Len(invoked) :
          (/\ i < j
           /\ \E k \in 1..Len(accepted) : accepted[k] = invoked[i]
           /\ \E k \in 1..Len(accepted) : accepted[k] = invoked[j])
          => invoked[i].id < invoked[j].id
=============================================================================
